---- MODULE Spec2Model ----
(***************************************************************************)
(* Acquisition / buffering / finalization pipeline of multimeter_34401A.py *)
(*                                                                         *)
(* Three kinds of execution context are modelled:                          *)
(*   - the Tk main thread (start, stop, limit-reached callback, render     *)
(*     tick, clear), position in mpc;                                      *)
(*   - one _measure_loop thread per start(), position in spc[s];           *)
(*   - one _csv_to_excel_thread per spawned finalization, position in      *)
(*     fins[f].pc.                                                         *)
(* Threads interleave at every access to shared attributes of the app      *)
(* object; statements that touch no shared attribute are merged into the   *)
(* neighbouring step.                                                      *)
(***************************************************************************)
EXTENDS Integers, Sequences, FiniteSets, TLC

\* ---------------------------------------------------------------- bounds
MaxRuns   == 2      \* accepted start() calls
MaxIter   == 3      \* loop iterations of the _measure_loop thread of a single run
MaxIterRestart == 1 \* loop iterations of each thread when runs are restarted
MaxFaults == 1      \* injected I/O failures (open, append, read, save)
MaxIterPanel == 3   \* loop iterations of the thread while the panel is operated
MaxMsgs   == 1      \* message boxes of each kind
MaxRows   == 5      \* rows of a buffer handed to the finalizer directly
MaxIterTrend == 2   \* loop iterations of each thread in runs without autosave
MaxQueued == 6      \* samples waiting in the queue when a tick begins
MaxSaves  == 1      \* manual exports of a session

MaxPtsChoices == {0, 1, 2}          \* values of the max-points entry
MaxFin        == 2 * MaxRuns        \* finalizer threads that can be spawned

Samplers == 1..MaxRuns
Runs     == 1..MaxRuns

\* ------------------------------------------------------- program constants
NaN     == -1       \* float("nan") returned by a failed read
Reading == 1        \* a successful reading
MinInterval == 50   \* smallest interval start() accepts, in ms
DefaultInterval == 500  \* "interval_ms" of DEFAULT_SETTINGS
ScrollWin == 1      \* scroll window of the settings file, in sampling periods
Scale8  == 100000000    \* 10^8: a number in [1, 10) printed with "%.9g" keeps 8 decimals

\* ------------------------------------------------------------ data shapes
NoSample  == [src |-> 0, k |-> 0, val |-> 0]
HeaderRow == [idx |-> 0, src |-> 0, k |-> 0, val |-> 0]

SuffixModes == {"datetime", "counter"}
NoPath      == <<"", 0>>
AllPaths    == (SuffixModes \X (1..(MaxRuns + MaxSaves)))

\* text of the interval entry: an integer literal or something int() rejects
IntervalChoices == {<<"text", 0>>, <<"int", MinInterval - 1>>,
                    <<"int", MinInterval>>}
StatValues      == 1..5                 \* row values of a directly given buffer
WinChoices      == {5, 10}              \* values of the scroll window entry, in s
TrendValues     == {1, 2}               \* readings of a directly given queue

NoView   == [tmin |-> 0, thi |-> 1, vmin |-> 0, vmax |-> 1]
NoStats  == [count |-> 0, mean |-> 0, min |-> 0, max |-> 0, pp |-> 0]
NoFile   == [exists |-> FALSE, lines |-> <<>>, gen |-> 0]
NoChart  == [present |-> FALSE, rows |-> <<>>]
NoReport == [exists |-> FALSE, rows |-> <<>>, run |-> 0, stats |-> NoStats,
             chart |-> NoChart]
NoneFile == [open |-> FALSE, path |-> NoPath, linked |-> FALSE]

VARIABLES
    \* --- MultimeterApp attributes
    running,            \* self.running
    data_queue,         \* self.data_queue (FIFO of samples)
    data,               \* self.data_timestamps / self.data_values, kept in step
    btn_save,           \* state of btn_save is "normal"
    pending,            \* queued after(0, _on_maxpts_reached) callbacks
    maxpts_var,         \* self.maxpts_var
    autosave_var,       \* self.autosave_var (and openpyxl is available)
    suffix_mode_var,    \* self.suffix_mode_var
    simulation,         \* self.dmm.simulation
    interval_var,       \* self.interval_var (text of the entry)
    autoscale_var,      \* self.autoscale_var
    scroll_var,         \* self.scroll_var
    excel_stats_var,    \* self.excel_stats_var
    excel_chart_var,    \* self.excel_chart_var
    scroll_win_var,     \* self.scroll_win_var (the number float() makes of it)
    view,               \* axis limits of the plot (xlim, ylim)
    input_errors,       \* "input_error" message boxes shown
    stop_warnings,      \* "stop_first" message boxes shown
    counter,            \* self._autosave_counter
    stamp,              \* last wall-clock second used in a datetime suffix
    path,               \* self._autosave_path / self._autosave_csv_path
    built,              \* file names built so far by _build_save_filename
    csv_file,           \* self._autosave_csv_file / self._autosave_csv_writer
    row_count,          \* self._autosave_data_row_count
    \* --- file system
    csv,                \* path -> durable buffer file
    xlsx,               \* path -> final report
    \* --- threads
    mpc,                \* main thread position
    spc,                \* sampler position
    cur,                \* sampler locals: sample of the iteration
    k,                  \* sampler: samples pushed so far
    irow,               \* sampler local i of _append_live_row
    lenread,            \* sampler: len(self.data_timestamps) already evaluated
    maxpts,             \* sampler local maxpts of the iteration (0 = not read)
    interval_ms,        \* sampler: argument interval_ms of _measure_loop
    fins,               \* finalizer threads, in spawn order
    \* --- bookkeeping for the properties
    runNo,              \* accepted starts so far
    bufRun,             \* run that set the current path
    epoch,              \* run in progress when the sampler last passed its loop test
    limitAt,            \* k of the sampler when it signalled limit-reached (0 = not)
    opened,             \* run -> its buffer was opened
    openFailed,         \* run -> opening its buffer failed
    appendFailed,       \* run -> an append failed while it was the current run
    stopPressed,        \* run -> Stop was pressed during it
    err_reports,        \* run -> file_open_err status messages
    faults,             \* injected failures so far
    startCfg,           \* run -> interval and max-points when start() accepted it
    capUsed,            \* sampler -> limit it compared with when it signalled
    appended,           \* run -> rows written to the buffer while it was current
    viewBy              \* branch of the tick that set the limits; "stale" once
                        \* a view switch was toggled after that, "none" when reset

cfgVars  == <<maxpts_var, autosave_var, suffix_mode_var, simulation,
              interval_var, autoscale_var, scroll_var, excel_stats_var,
              excel_chart_var, scroll_win_var>>
msgVars  == <<input_errors, stop_warnings>>
locVars  == <<maxpts, interval_ms>>
cfgHist  == <<startCfg, capUsed>>
nameVars == <<counter, stamp, path, built>>
appVars  == <<running, data_queue, data, btn_save, pending, cfgVars, nameVars,
              csv_file, row_count>>
fsVars   == <<csv, xlsx>>
thrVars  == <<mpc, spc, cur, k, irow, lenread, fins>>
histVars == <<runNo, bufRun, epoch, limitAt, opened, openFailed, appendFailed,
              stopPressed, err_reports, faults>>
vars     == <<appVars, fsVars, thrVars, histVars, view, msgVars, locVars,
              cfgHist, appended, viewBy>>

\* ------------------------------------------------------------------ Init
\* attributes, files and threads after construction, settings apart
InitState ==
    /\ running = FALSE
    /\ data_queue = <<>>
    /\ data = <<>>
    /\ btn_save = FALSE
    /\ pending = 0
    /\ view = NoView
    /\ viewBy = "none"
    /\ input_errors = 0
    /\ stop_warnings = 0
    /\ maxpts = [s \in Samplers |-> 0]
    /\ interval_ms = [s \in Samplers |-> 0]
    /\ startCfg = [r \in Runs |-> [interval |-> 0, maxpts |-> 0]]
    /\ capUsed = [s \in Samplers |-> 0]
    /\ appended = [r \in Runs |-> <<>>]
    /\ counter = 0
    /\ stamp = 0
    /\ path = NoPath
    /\ built = <<>>
    /\ csv_file = NoneFile
    /\ row_count = 0
    /\ csv = [p \in AllPaths |-> NoFile]
    /\ xlsx = [p \in AllPaths |-> NoReport]
    /\ mpc = "idle"
    /\ spc = [s \in Samplers |-> "none"]
    /\ cur = [s \in Samplers |-> NoSample]
    /\ k = [s \in Samplers |-> 0]
    /\ irow = [s \in Samplers |-> 0]
    /\ lenread = [s \in Samplers |-> 0]
    /\ fins = <<>>
    /\ runNo = 0
    /\ bufRun = 0
    /\ epoch = [s \in Samplers |-> 0]
    /\ limitAt = [s \in Samplers |-> 0]
    /\ opened = [r \in Runs |-> FALSE]
    /\ openFailed = [r \in Runs |-> FALSE]
    /\ appendFailed = [r \in Runs |-> FALSE]
    /\ stopPressed = [r \in Runs |-> FALSE]
    /\ err_reports = [r \in Runs |-> 0]
    /\ faults = 0

\* _apply_settings for the two view switches: the values of the settings
\* file, then _on_scroll_toggle
AppliedView(sa, ss) ==
    /\ scroll_var = ss
    /\ autoscale_var = (IF ss THEN FALSE ELSE sa)

\* the settings file holds any max-points, autosave, suffix mode and
\* connection; interval, view switches and report options are the defaults
Init ==
    /\ InitState
    /\ maxpts_var \in MaxPtsChoices
    /\ autosave_var \in BOOLEAN
    /\ suffix_mode_var \in SuffixModes
    /\ simulation \in BOOLEAN
    /\ interval_var = <<"int", DefaultInterval>>
    /\ AppliedView(TRUE, FALSE)
    /\ scroll_win_var = ScrollWin
    /\ excel_stats_var = TRUE
    /\ excel_chart_var = TRUE

\* ------------------------------------------------------------- helpers
\* variant of SuffixChoices that takes the next number without storing it
SuffixChoicesPreview ==
    IF suffix_mode_var = "datetime"
    THEN { [mode |-> "datetime", n |-> t, counter |-> counter, stamp |-> t] :
              t \in { u \in {stamp, stamp + 1} : u >= 1 /\ u <= MaxRuns } }
    ELSE { [mode |-> "counter", n |-> counter + 1, counter |-> counter,
            stamp |-> stamp] }

\* the suffixes _build_suffix can return, with the state each leaves behind:
\* the wall clock shows the second of the previous suffix or a later one
SuffixChoices ==
    IF suffix_mode_var = "datetime"
    THEN { [mode |-> "datetime", n |-> t, counter |-> counter, stamp |-> t] :
              t \in { u \in {stamp, stamp + 1} : u >= 1 /\ u <= MaxRuns } }
    ELSE { [mode |-> "counter", n |-> counter + 1, counter |-> counter + 1,
            stamp |-> stamp] }

NewThread(s) == [spc EXCEPT ![s] = "loop"]

\* one line written through the open file object and flushed; a file that was
\* unlinked keeps no name, so the line is not visible under the path
PutLine(files, fobj, line) ==
    IF fobj.open /\ fobj.linked /\ files[fobj.path].exists
    THEN [files EXCEPT ![fobj.path].lines = Append(@, line)]
    ELSE files

NewFinalizer == [pc |-> "convert", path |-> path, run |-> bufRun,
                 readGen |-> 0, rows |-> <<>>, failed |-> FALSE,
                 saved |-> FALSE, removedGen |-> 0,
                 inc_stats |-> excel_stats_var,
                 inc_chart |-> excel_chart_var, at |-> runNo]

\* int(self.interval_var.get()) succeeds and the value is not below 50
ValidInterval(e) == e[1] = "int" /\ e[2] >= MinInterval

\* float comparison: every comparison with NaN is false
Lt(a, b) == a # NaN /\ b # NaN /\ a < b

\* Python's min() and max() over a non-empty list: the first item is kept
\* until a later one compares smaller (larger)
RECURSIVE PyMinFrom(_, _, _)
PyMinFrom(sq, i, m) ==
    IF i > Len(sq) THEN m
    ELSE PyMinFrom(sq, i + 1, IF Lt(sq[i], m) THEN sq[i] ELSE m)
PyMin(sq) == PyMinFrom(sq, 2, sq[1])

RECURSIVE PyMaxFrom(_, _, _)
PyMaxFrom(sq, i, m) ==
    IF i > Len(sq) THEN m
    ELSE PyMaxFrom(sq, i + 1, IF Lt(m, sq[i]) THEN sq[i] ELSE m)
PyMax(sq) == PyMaxFrom(sq, 2, sq[1])

\* the two lists of the trend buffer; the sample number stands for the
\* elapsed time of the sample
Timestamps(d) == [i \in 1..Len(d) |-> d[i].k]
Values(d)     == [i \in 1..Len(d) |-> d[i].val]

\* upper x limit: "tmax if tmax > tmin else tmin + 1"
XHi(tmin, tmax) == IF tmax > tmin THEN tmax ELSE tmin + 1

\* variant of ScrollView that takes the y range of all points
ScrollViewAll(d) ==
    LET ts   == Timestamps(d)
        tmax == ts[Len(ts)]
        tmin == IF Lt(ts[1], tmax - scroll_win_var)
                THEN tmax - scroll_win_var ELSE ts[1]
    IN [tmin |-> tmin, thi |-> XHi(tmin, tmax),
        vmin |-> PyMin(Values(d)), vmax |-> PyMax(Values(d))]

\* scroll branch: fixed window ending at the newest sample, y range of the
\* visible points
ScrollView(d) ==
    LET ts   == Timestamps(d)
        tmax == ts[Len(ts)]
        tmin == IF Lt(ts[1], tmax - scroll_win_var)
                THEN tmax - scroll_win_var ELSE ts[1]
        IsVisible(smp) == smp.k >= tmin /\ smp.k <= tmax
        vis  == Values(SelectSeq(d, IsVisible))
    IN [tmin |-> tmin, thi |-> XHi(tmin, tmax),
        vmin |-> PyMin(vis), vmax |-> PyMax(vis)]

\* autoscale branch: relim() and autoscale_view() take the extent of the
\* points with a finite value; without such a point the limits stay
AutoView(d, old) ==
    LET IsFinite(smp) == smp.val # NaN
        fin == SelectSeq(d, IsFinite)
    IN IF fin = <<>> THEN old
       ELSE [tmin |-> PyMin(Timestamps(fin)), thi |-> PyMax(Timestamps(fin)),
             vmin |-> PyMin(Values(fin)), vmax |-> PyMax(Values(fin))]

\* last branch (neither switch set): min and max of both lists
ManualView(d) ==
    LET tmin == PyMin(Timestamps(d))
    IN [tmin |-> tmin, thi |-> XHi(tmin, PyMax(Timestamps(d))),
        vmin |-> PyMin(Values(d)), vmax |-> PyMax(Values(d))]

\* branch of the tick taken with the switches as they are
TickBranch ==
    IF scroll_var THEN "scroll" ELSE IF autoscale_var THEN "auto" ELSE "manual"

\* axis limits set by a tick of _update_plot_loop that drained a sample
TickView(d, old) ==
    IF scroll_var THEN ScrollView(d)
    ELSE IF autoscale_var THEN AutoView(d, old)
    ELSE ManualView(d)

\* _finalize_live_workbook, called by the two stop handlers
FinalizeLive ==
    IF ~csv_file.open /\ row_count = 0
    THEN UNCHANGED <<csv_file, row_count, fins>>
    ELSE /\ csv_file' = NoneFile
         /\ row_count' = 0
         /\ fins' = Append(fins, NewFinalizer)

\* body shared by _stop_measurement and _on_maxpts_reached
StopBody ==
    /\ running' = FALSE
    /\ btn_save' = (btn_save \/ data # <<>>)
    /\ FinalizeLive

\* ------------------------------------------------------ main thread: start
\* _start_measurement up to the clearing of the plot data; the start button
\* is enabled only while no run is in progress
StartClear ==
    /\ mpc = "idle"
    /\ ~running
    /\ ValidInterval(interval_var)
    /\ data' = <<>>
    /\ view' = NoView
    /\ viewBy' = "none"
    /\ mpc' = "start_run"
    /\ UNCHANGED <<running, data_queue, btn_save, pending, cfgVars, nameVars,
                   csv_file, row_count>>
    /\ UNCHANGED <<fsVars, spc, cur, k, irow, lenread, fins, histVars>>
    /\ UNCHANGED <<input_errors, stop_warnings, maxpts,
                   interval_ms, startCfg, capUsed, appended>>

\* running = True; autosave off: the thread is started at once
StartNoPersist ==
    /\ mpc = "start_run"
    /\ ~autosave_var
    /\ running' = TRUE
    /\ btn_save' = FALSE
    /\ runNo' = runNo + 1
    /\ startCfg' = [startCfg EXCEPT ![runNo + 1] =
                      [interval |-> interval_var[2], maxpts |-> maxpts_var]]
    /\ spc' = NewThread(runNo + 1)
    /\ interval_ms' = [interval_ms EXCEPT ![runNo + 1] = interval_var[2]]
    /\ mpc' = "idle"
    /\ UNCHANGED <<data_queue, data, pending, cfgVars, nameVars, csv_file,
                   row_count>>
    /\ UNCHANGED <<fsVars, cur, k, irow, lenread, fins>>
    /\ UNCHANGED <<bufRun, epoch, limitAt, opened, openFailed, appendFailed,
                   stopPressed, err_reports, faults>>
    /\ UNCHANGED <<view, viewBy, input_errors, stop_warnings,
                   maxpts, capUsed, appended>>

\* running = True; autosave on: _open_live_workbook builds the paths and
\* resets the row counter
StartOpenPaths ==
    /\ mpc = "start_run"
    /\ autosave_var
    /\ running' = TRUE
    /\ btn_save' = FALSE
    /\ runNo' = runNo + 1
    /\ startCfg' = [startCfg EXCEPT ![runNo + 1] =
                      [interval |-> interval_var[2], maxpts |-> maxpts_var]]
    /\ \E sfx \in SuffixChoices :
          /\ counter' = sfx.counter
          /\ stamp' = sfx.stamp
          /\ path' = <<sfx.mode, sfx.n>>
          /\ built' = Append(built, [by |-> "run", name |-> <<sfx.mode, sfx.n>>])
    /\ row_count' = 0
    /\ bufRun' = runNo + 1
    /\ mpc' = "open_file"
    /\ UNCHANGED <<data_queue, data, pending, cfgVars, csv_file>>
    /\ UNCHANGED <<fsVars, spc, cur, k, irow, lenread, fins>>
    /\ UNCHANGED <<epoch, limitAt, opened, openFailed, appendFailed,
                   stopPressed, err_reports, faults>>
    /\ UNCHANGED <<view, viewBy, input_errors, stop_warnings,
                   maxpts, interval_ms, capUsed, appended>>

\* os.makedirs raises: only the handle and the writer are reset, the error is
\* shown, the run goes on
StartOpenFailEarly ==
    /\ mpc = "start_run"
    /\ autosave_var
    /\ faults' = faults + 1
    /\ running' = TRUE
    /\ btn_save' = FALSE
    /\ runNo' = runNo + 1
    /\ startCfg' = [startCfg EXCEPT ![runNo + 1] =
                      [interval |-> interval_var[2], maxpts |-> maxpts_var]]
    /\ csv_file' = NoneFile
    /\ openFailed' = [openFailed EXCEPT ![runNo + 1] = TRUE]
    /\ err_reports' = [err_reports EXCEPT ![runNo + 1] = @ + 1]
    /\ spc' = NewThread(runNo + 1)
    /\ interval_ms' = [interval_ms EXCEPT ![runNo + 1] = interval_var[2]]
    /\ mpc' = "idle"
    /\ UNCHANGED <<data_queue, data, pending, cfgVars, nameVars, row_count>>
    /\ UNCHANGED <<fsVars, cur, k, irow, lenread, fins>>
    /\ UNCHANGED <<bufRun, epoch, limitAt, opened, appendFailed, stopPressed>>
    /\ UNCHANGED <<view, viewBy, input_errors, stop_warnings,
                   maxpts, capUsed, appended>>

\* open(csv_path, "w") truncates or creates the file; the writer is set
OpenFile ==
    /\ mpc = "open_file"
    /\ csv' = [csv EXCEPT ![path] = [exists |-> TRUE, lines |-> <<>>,
                                      gen |-> runNo]]
    /\ csv_file' = [open |-> TRUE, path |-> path, linked |-> TRUE]
    /\ opened' = [opened EXCEPT ![runNo] = TRUE]
    /\ mpc' = "write_header"
    /\ UNCHANGED <<running, data_queue, data, btn_save, pending, cfgVars,
                   nameVars, row_count>>
    /\ UNCHANGED <<xlsx, spc, cur, k, irow, lenread, fins>>
    /\ UNCHANGED <<runNo, bufRun, epoch, limitAt, openFailed, appendFailed,
                   stopPressed, err_reports, faults>>
    /\ UNCHANGED <<view, viewBy, input_errors, stop_warnings, maxpts,
                   interval_ms, startCfg, capUsed, appended>>

\* variant of OpenFileFail that swallows the exception without a message
OpenFileFailSilent ==
    /\ mpc = "open_file"
    /\ faults' = faults + 1
    /\ csv_file' = NoneFile
    /\ openFailed' = [openFailed EXCEPT ![runNo] = TRUE]
    /\ spc' = NewThread(runNo)
    /\ interval_ms' = [interval_ms EXCEPT ![runNo] = interval_var[2]]
    /\ mpc' = "idle"
    /\ UNCHANGED <<running, data_queue, data, btn_save, pending, cfgVars,
                   nameVars, row_count>>
    /\ UNCHANGED <<fsVars, cur, k, irow, lenread, fins>>
    /\ UNCHANGED <<runNo, bufRun, epoch, limitAt, opened, appendFailed,
                   stopPressed, err_reports>>
    /\ UNCHANGED <<view, viewBy, input_errors, stop_warnings,
                   maxpts, startCfg, capUsed, appended>>

\* open() raises: handle and writer are None, the error is shown, the run
\* goes on
OpenFileFail ==
    /\ mpc = "open_file"
    /\ faults' = faults + 1
    /\ csv_file' = NoneFile
    /\ openFailed' = [openFailed EXCEPT ![runNo] = TRUE]
    /\ err_reports' = [err_reports EXCEPT ![runNo] = @ + 1]
    /\ spc' = NewThread(runNo)
    /\ interval_ms' = [interval_ms EXCEPT ![runNo] = interval_var[2]]
    /\ mpc' = "idle"
    /\ UNCHANGED <<running, data_queue, data, btn_save, pending, cfgVars,
                   nameVars, row_count>>
    /\ UNCHANGED <<fsVars, cur, k, irow, lenread, fins>>
    /\ UNCHANGED <<runNo, bufRun, epoch, limitAt, opened, appendFailed,
                   stopPressed>>
    /\ UNCHANGED <<view, viewBy, input_errors, stop_warnings,
                   maxpts, startCfg, capUsed, appended>>

\* header row written and flushed, then the _measure_loop thread is started
WriteHeader ==
    /\ mpc = "write_header"
    /\ csv' = PutLine(csv, csv_file, HeaderRow)
    /\ spc' = NewThread(runNo)
    /\ interval_ms' = [interval_ms EXCEPT ![runNo] = interval_var[2]]
    /\ mpc' = "idle"
    /\ UNCHANGED <<appVars, xlsx, cur, k, irow, lenread, fins, histVars>>
    /\ UNCHANGED <<view, viewBy, input_errors, stop_warnings,
                   maxpts, startCfg, capUsed, appended>>

\* ------------------------------------------------- main thread: stop paths
\* the stop button is enabled only while a run is in progress
StopMeasurement ==
    /\ mpc = "idle"
    /\ running
    /\ StopBody
    /\ stopPressed' = [stopPressed EXCEPT ![runNo] = TRUE]
    /\ UNCHANGED <<data_queue, data, pending, cfgVars, nameVars>>
    /\ UNCHANGED <<fsVars, mpc, spc, cur, k, irow, lenread>>
    /\ UNCHANGED <<runNo, bufRun, epoch, limitAt, opened, openFailed,
                   appendFailed, err_reports, faults>>
    /\ UNCHANGED <<view, viewBy, input_errors, stop_warnings, maxpts,
                   interval_ms, startCfg, capUsed, appended>>

OnMaxptsReached ==
    /\ mpc = "idle"
    /\ pending > 0
    /\ pending' = pending - 1
    /\ StopBody
    /\ UNCHANGED <<data_queue, data, cfgVars, nameVars>>
    /\ UNCHANGED <<fsVars, mpc, spc, cur, k, irow, lenread, histVars>>
    /\ UNCHANGED <<view, viewBy, input_errors, stop_warnings, maxpts,
                   interval_ms, startCfg, capUsed, appended>>

\* ---------------------------------------------- main thread: render tick
\* variant of RenderItem that takes the newest item of the queue
RenderItemNewest ==
    /\ mpc \in {"idle", "render"}
    /\ data_queue # <<>>
    /\ data' = Append(data, data_queue[Len(data_queue)])
    /\ data_queue' = SubSeq(data_queue, 1, Len(data_queue) - 1)
    /\ mpc' = "render"
    /\ UNCHANGED <<running, btn_save, pending, cfgVars, nameVars, csv_file,
                   row_count>>
    /\ UNCHANGED <<fsVars, spc, cur, k, irow, lenread, fins, histVars>>
    /\ UNCHANGED <<view, viewBy, input_errors, stop_warnings, maxpts,
                   interval_ms, startCfg, capUsed, appended>>

\* one pass of "while not self.data_queue.empty()": get_nowait and append
RenderItem ==
    /\ mpc \in {"idle", "render"}
    /\ data_queue # <<>>
    /\ data' = Append(data, Head(data_queue))
    /\ data_queue' = Tail(data_queue)
    /\ mpc' = "render"
    /\ UNCHANGED <<running, btn_save, pending, cfgVars, nameVars, csv_file,
                   row_count>>
    /\ UNCHANGED <<fsVars, spc, cur, k, irow, lenread, fins, histVars>>
    /\ UNCHANGED <<view, viewBy, input_errors, stop_warnings, maxpts,
                   interval_ms, startCfg, capUsed, appended>>

\* queue found empty: the rest of the tick (save button when stopped)
RenderFinish ==
    /\ mpc = "render"
    /\ data_queue = <<>>
    /\ btn_save' = (btn_save \/ ~running)
    /\ view' = TickView(data, view)
    /\ viewBy' = TickBranch
    /\ mpc' = "idle"
    /\ UNCHANGED <<running, data_queue, data, pending, cfgVars, nameVars,
                   csv_file, row_count>>
    /\ UNCHANGED <<fsVars, spc, cur, k, irow, lenread, fins, histVars>>
    /\ UNCHANGED <<input_errors, stop_warnings, maxpts,
                   interval_ms, startCfg, capUsed, appended>>

\* ------------------------------------------------ main thread: other input
\* _clear_data while no run is in progress
ClearData ==
    /\ mpc = "idle"
    /\ ~running
    /\ data # <<>>
    /\ data' = <<>>
    /\ view' = NoView
    /\ viewBy' = "none"
    /\ btn_save' = FALSE
    /\ UNCHANGED <<running, data_queue, pending, cfgVars, nameVars, csv_file,
                   row_count>>
    /\ UNCHANGED <<fsVars, thrVars, histVars>>
    /\ UNCHANGED <<input_errors, stop_warnings, maxpts,
                   interval_ms, startCfg, capUsed, appended>>

\* variant of ClearRejected that shows the warning and clears all the same
ClearRejectedClears ==
    /\ mpc = "idle"
    /\ running
    /\ stop_warnings' = stop_warnings + 1
    /\ data' = <<>>
    /\ view' = NoView
    /\ viewBy' = "none"
    /\ btn_save' = FALSE
    /\ UNCHANGED <<running, data_queue, pending, cfgVars, nameVars, csv_file,
                   row_count>>
    /\ UNCHANGED <<fsVars, thrVars, histVars, input_errors, locVars, cfgHist,
                   appended>>

\* _clear_data while a run is in progress: warning, nothing else
ClearRejected ==
    /\ mpc = "idle"
    /\ running
    /\ stop_warnings' = stop_warnings + 1
    /\ UNCHANGED <<appVars, fsVars, thrVars, histVars, view, viewBy, input_errors,
                   locVars, cfgHist, appended>>

\* variant of StartRejected that validates only after the plot data was cleared
StartRejectedClears ==
    /\ mpc = "idle"
    /\ ~running
    /\ ~ValidInterval(interval_var)
    /\ input_errors' = input_errors + 1
    /\ data' = <<>>
    /\ view' = NoView
    /\ viewBy' = "none"
    /\ UNCHANGED <<running, data_queue, btn_save, pending, cfgVars, nameVars,
                   csv_file, row_count>>
    /\ UNCHANGED <<fsVars, thrVars, histVars, stop_warnings, locVars, cfgHist,
                   appended>>

\* _start_measurement with an interval entry that int() rejects or that is
\* below 50: error box, return
StartRejected ==
    /\ mpc = "idle"
    /\ ~running
    /\ ~ValidInterval(interval_var)
    /\ input_errors' = input_errors + 1
    /\ UNCHANGED <<appVars, fsVars, thrVars, histVars, view, viewBy, stop_warnings,
                   locVars, cfgHist, appended>>

\* the user edits the interval entry
SetInterval(e) ==
    /\ mpc = "idle"
    /\ e # interval_var
    /\ interval_var' = e
    /\ UNCHANGED <<running, data_queue, data, btn_save, pending, maxpts_var,
                   autosave_var, suffix_mode_var, simulation, autoscale_var,
                   scroll_var, excel_stats_var, excel_chart_var, scroll_win_var,
                   nameVars, csv_file, row_count>>
    /\ UNCHANGED <<fsVars, thrVars, histVars, view, viewBy, msgVars, locVars,
                   cfgHist, appended>>

\* the user edits the max-points entry
SetMaxPts(n) ==
    /\ mpc = "idle"
    /\ n # maxpts_var
    /\ maxpts_var' = n
    /\ UNCHANGED <<running, data_queue, data, btn_save, pending, interval_var,
                   autosave_var, suffix_mode_var, simulation, autoscale_var,
                   scroll_var, excel_stats_var, excel_chart_var, scroll_win_var,
                   nameVars, csv_file, row_count>>
    /\ UNCHANGED <<fsVars, thrVars, histVars, view, viewBy, msgVars, locVars,
                   cfgHist, appended>>

\* the autoscale check button: bound to the variable, no command
ToggleAutoscale ==
    /\ mpc = "idle"
    /\ autoscale_var' = ~autoscale_var
    /\ UNCHANGED <<running, data_queue, data, btn_save, pending, interval_var,
                   autosave_var, suffix_mode_var, simulation, maxpts_var,
                   scroll_var, excel_stats_var, excel_chart_var, scroll_win_var,
                   nameVars, csv_file, row_count>>
    /\ viewBy' = (IF viewBy = "none" THEN "none" ELSE "stale")
    /\ UNCHANGED <<fsVars, thrVars, histVars, view, msgVars, locVars, cfgHist,
                   appended>>

\* the scroll check button, command _on_scroll_toggle: scroll switched on
\* switches autoscale off
ToggleScroll ==
    /\ mpc = "idle"
    /\ scroll_var' = ~scroll_var
    /\ autoscale_var' = (IF ~scroll_var THEN FALSE ELSE autoscale_var)
    /\ UNCHANGED <<running, data_queue, data, btn_save, pending, interval_var,
                   autosave_var, suffix_mode_var, simulation, maxpts_var,
                   excel_stats_var, excel_chart_var, scroll_win_var, nameVars,
                   csv_file, row_count>>
    /\ viewBy' = (IF viewBy = "none" THEN "none" ELSE "stale")
    /\ UNCHANGED <<fsVars, thrVars, histVars, view, msgVars, locVars, cfgHist,
                   appended>>

\* the autosave check button: bound to the variable, no command
ToggleAutosave ==
    /\ mpc = "idle"
    /\ autosave_var' = ~autosave_var
    /\ UNCHANGED <<running, data_queue, data, btn_save, pending, interval_var,
                   maxpts_var, suffix_mode_var, simulation, autoscale_var,
                   scroll_var, excel_stats_var, excel_chart_var, scroll_win_var,
                   nameVars, csv_file, row_count>>
    /\ UNCHANGED <<fsVars, thrVars, histVars, view, viewBy, msgVars, locVars,
                   cfgHist, appended>>

\* --------------------------------------------------------- sampler thread
\* Multimeter34401A.measure: a simulated reading never fails, a failed
\* instrument query yields NaN
MeasureResults(sim) == IF sim THEN {Reading} ELSE {Reading, NaN}

\* position after the append part of an iteration: with a positive limit the
\* left operand len(self.data_timestamps) is evaluated, else the loop goes on
AfterAppend(s) ==
    IF maxpts_var > 0
    THEN /\ maxpts' = [maxpts EXCEPT ![s] = maxpts_var]
         /\ lenread' = [lenread EXCEPT ![s] = Len(data)]
         /\ spc' = [spc EXCEPT ![s] = "rdq"]
    ELSE /\ spc' = [spc EXCEPT ![s] = "loop"]
         /\ UNCHANGED <<lenread, maxpts>>

\* "while self.running:"
LoopTest(s) ==
    /\ spc[s] = "loop"
    /\ IF running
       THEN /\ spc' = [spc EXCEPT ![s] = "measure"]
            /\ epoch' = [epoch EXCEPT ![s] = runNo]
       ELSE /\ spc' = [spc EXCEPT ![s] = "done"]
            /\ UNCHANGED epoch
    /\ UNCHANGED <<appVars, fsVars, mpc, cur, k, irow, lenread, fins>>
    /\ UNCHANGED <<runNo, bufRun, limitAt, opened, openFailed, appendFailed,
                   stopPressed, err_reports, faults>>
    /\ UNCHANGED <<view, viewBy, input_errors, stop_warnings, maxpts,
                   interval_ms, startCfg, capUsed, appended>>

\* val = self.dmm.measure(); self.data_queue.put((elapsed, val)); then the
\* test "self._autosave_csv_writer is not None" of the caller and the callee
MeasurePut(s) ==
    /\ spc[s] = "measure"
    /\ \E v \in MeasureResults(simulation) :
          LET smp == [src |-> s, k |-> k[s] + 1, val |-> v]
          IN /\ cur' = [cur EXCEPT ![s] = smp]
             /\ data_queue' = Append(data_queue, smp)
    /\ k' = [k EXCEPT ![s] = @ + 1]
    /\ IF csv_file.open
       THEN /\ spc' = [spc EXCEPT ![s] = "inc"]
            /\ UNCHANGED <<lenread, maxpts>>
       ELSE AfterAppend(s)
    /\ UNCHANGED <<running, data, btn_save, pending, cfgVars, nameVars,
                   csv_file, row_count>>
    /\ UNCHANGED <<fsVars, mpc, irow, fins, histVars>>
    /\ UNCHANGED <<view, viewBy, input_errors, stop_warnings,
                   interval_ms, startCfg, capUsed, appended>>

\* the lock is held by the thread that is between the increment and the write
LockFree == \A t \in Samplers : spc[t] # "write"

\* with self._autosave_lock: self._autosave_data_row_count += 1; i = count
IncRow(s) ==
    /\ spc[s] = "inc"
    /\ LockFree
    /\ row_count' = row_count + 1
    /\ irow' = [irow EXCEPT ![s] = row_count + 1]
    /\ spc' = [spc EXCEPT ![s] = "write"]
    /\ UNCHANGED <<running, data_queue, data, btn_save, pending, cfgVars,
                   nameVars, csv_file>>
    /\ UNCHANGED <<fsVars, mpc, cur, k, lenread, fins, histVars>>
    /\ UNCHANGED <<view, viewBy, input_errors, stop_warnings, maxpts,
                   interval_ms, startCfg, capUsed, appended>>

LiveRow(i, smp) == [idx |-> i, src |-> smp.src, k |-> smp.k, val |-> smp.val]

\* writerow([...]) and flush(); a writer that is None raises, the exception
\* is swallowed; the lock is released either way
WriteRow(s) ==
    /\ spc[s] = "write"
    /\ csv' = PutLine(csv, csv_file, LiveRow(irow[s], cur[s]))
    /\ appended' = IF csv_file.open
                   THEN [appended EXCEPT ![bufRun] =
                            Append(@, LiveRow(irow[s], cur[s]))]
                   ELSE appended
    /\ AfterAppend(s)
    /\ UNCHANGED <<appVars, xlsx, mpc, cur, k, irow, fins, histVars>>
    /\ UNCHANGED <<view, viewBy, input_errors, stop_warnings,
                   interval_ms, startCfg, capUsed>>

\* the write raises an I/O error: "except Exception: pass"
WriteRowFail(s) ==
    /\ spc[s] = "write"
    /\ csv_file.open
    /\ faults' = faults + 1
    /\ appendFailed' = [appendFailed EXCEPT ![bufRun] = TRUE]
    /\ AfterAppend(s)
    /\ UNCHANGED <<appVars, fsVars, mpc, cur, k, irow, fins>>
    /\ UNCHANGED <<runNo, bufRun, epoch, limitAt, opened, openFailed,
                   stopPressed, err_reports>>
    /\ UNCHANGED <<view, viewBy, input_errors, stop_warnings,
                   interval_ms, startCfg, capUsed, appended>>

\* right operand self.data_queue.qsize(); limit reached: callback queued, break
ReadQsize(s) ==
    /\ spc[s] = "rdq"
    /\ IF lenread[s] + Len(data_queue) >= maxpts[s]
       THEN /\ pending' = pending + 1
            /\ limitAt' = [limitAt EXCEPT ![s] = k[s]]
            /\ capUsed' = [capUsed EXCEPT ![s] = maxpts[s]]
            /\ spc' = [spc EXCEPT ![s] = "done"]
       ELSE /\ spc' = [spc EXCEPT ![s] = "loop"]
            /\ UNCHANGED <<pending, limitAt, capUsed>>
    /\ lenread' = [lenread EXCEPT ![s] = 0]
    /\ maxpts' = [maxpts EXCEPT ![s] = 0]
    /\ UNCHANGED <<running, data_queue, data, btn_save, cfgVars, nameVars,
                   csv_file, row_count>>
    /\ UNCHANGED <<fsVars, mpc, cur, k, irow, fins>>
    /\ UNCHANGED <<runNo, bufRun, epoch, opened, openFailed, appendFailed,
                   stopPressed, err_reports, faults>>
    /\ UNCHANGED <<view, viewBy, input_errors, stop_warnings,
                   interval_ms, startCfg, appended>>

\* ------------------------------------------------------- finalizer thread
FinIds == 1..Len(fins)

\* a line whose first field is not an integer leaves its sheet row empty
BlankRow == [idx |-> -2, src |-> 0, k |-> 0, val |-> 0]
SheetRow(r) == IF r = HeaderRow THEN BlankRow ELSE r
SheetRows(rows) == [i \in 1..Len(rows) |-> SheetRow(rows[i])]

\* every line after the first one of the buffer file, when the file exists
CsvRows(fl) == IF fl.exists /\ fl.lines # <<>> THEN Tail(fl.lines) ELSE <<>>

RECURSIVE SumFrom(_, _)
SumFrom(sq, i) == IF i > Len(sq) THEN 0 ELSE sq[i] + SumFrom(sq, i + 1)

\* variant of G9Quotient that cuts the digits after the 8th decimal off
G9Truncated(num, den) ==
    (num \div den) * Scale8 + ((num % den) * Scale8) \div den

\* "%.9g" of the quotient num / den when it lies in [1, 10): the quotient
\* rounded to 8 decimals, in units of 10^-8
G9Quotient(num, den) ==
    LET r   == num % den
        rem == (r * Scale8) % den
    IN (num \div den) * Scale8 + (r * Scale8) \div den
          + (IF rem > 0 /\ 2 * rem >= den THEN 1 ELSE 0)

\* numpy mean(), min(), max() over the values of the rows and their printed
\* form: a NaN among the values makes every one of them NaN; the mean is in
\* units of 10^-8, the other entries are whole numbers
Stats(vals) ==
    IF \E i \in 1..Len(vals) : vals[i] = NaN
    THEN [count |-> Len(vals), mean |-> NaN, min |-> NaN, max |-> NaN,
          pp |-> NaN]
    ELSE [count |-> Len(vals), mean |-> G9Quotient(SumFrom(vals, 1), Len(vals)),
          min |-> PyMin(vals), max |-> PyMax(vals),
          pp |-> PyMax(vals) - PyMin(vals)]

\* the statistics block: written when the option was set at finalization,
\* rows were read and the third field of every row is a number
ReportStats(inc_stats, rows) ==
    IF inc_stats /\ Len(rows) > 0 /\ \A i \in 1..Len(rows) : rows[i] # HeaderRow
    THEN Stats(Values(rows))
    ELSE NoStats

\* a row of the chart sheet: a line whose second field is no number leaves
\* its row empty
BlankChartRow == [t |-> -2, val |-> 0]
ChartRow(r, t0) ==
    IF r = HeaderRow THEN BlankChartRow ELSE [t |-> r.k - t0, val |-> r.val]

\* variant of ReportChart that writes the elapsed times as they are
ReportChartRaw(inc_chart, rows) ==
    IF inc_chart /\ Len(rows) > 0
    THEN [present |-> TRUE,
          rows |-> [i \in 1..Len(rows) |-> ChartRow(rows[i], 0)]]
    ELSE NoChart

\* the chart sheet: written when the option was set at finalization and rows
\* were read; the elapsed times are taken relative to that of the first row
\* (to 0 when its second field is no number)
ReportChart(inc_chart, rows) ==
    IF inc_chart /\ Len(rows) > 0
    THEN LET t0_csv == IF rows[1] = HeaderRow THEN 0 ELSE rows[1].k
         IN [present |-> TRUE,
             rows |-> [i \in 1..Len(rows) |-> ChartRow(rows[i], t0_csv)]]
    ELSE NoChart

\* rows read, workbook built and saved
FinConvert(f) ==
    /\ f \in FinIds
    /\ fins[f].pc = "convert"
    /\ LET fl == csv[fins[f].path]
       IN /\ fins' = [fins EXCEPT ![f].pc = "remove",
                                  ![f].readGen = fl.gen,
                                  ![f].rows = CsvRows(fl),
                                  ![f].saved = TRUE]
          /\ xlsx' = [xlsx EXCEPT ![fins[f].path] =
                        [exists |-> TRUE, rows |-> SheetRows(CsvRows(fl)),
                         run |-> fins[f].run,
                         stats |-> ReportStats(fins[f].inc_stats, CsvRows(fl)),
                         chart |-> ReportChart(fins[f].inc_chart, CsvRows(fl))]]
    /\ UNCHANGED <<appVars, csv, mpc, spc, cur, k, irow, lenread, histVars>>
    /\ UNCHANGED <<view, viewBy, input_errors, stop_warnings, maxpts,
                   interval_ms, startCfg, capUsed, appended>>

\* reading the buffer, building the workbook or wb.save raises
FinConvertFail(f) ==
    /\ f \in FinIds
    /\ fins[f].pc = "convert"
    /\ faults' = faults + 1
    /\ fins' = [fins EXCEPT ![f].pc = "remove", ![f].failed = TRUE]
    /\ UNCHANGED <<appVars, fsVars, mpc, spc, cur, k, irow, lenread>>
    /\ UNCHANGED <<runNo, bufRun, epoch, limitAt, opened, openFailed,
                   appendFailed, stopPressed, err_reports>>
    /\ UNCHANGED <<view, viewBy, input_errors, stop_warnings, maxpts,
                   interval_ms, startCfg, capUsed, appended>>

\* "finally": the buffer file is removed when it exists
FinRemove(f) ==
    /\ f \in FinIds
    /\ fins[f].pc = "remove"
    /\ LET p == fins[f].path
       IN IF csv[p].exists
          THEN /\ csv' = [csv EXCEPT ![p] = NoFile]
               /\ csv_file' = IF csv_file.open /\ csv_file.path = p
                              THEN [csv_file EXCEPT !.linked = FALSE]
                              ELSE csv_file
               /\ fins' = [fins EXCEPT ![f].pc = "done",
                                       ![f].removedGen = csv[p].gen]
          ELSE /\ fins' = [fins EXCEPT ![f].pc = "done"]
               /\ UNCHANGED <<csv, csv_file>>
    /\ UNCHANGED <<running, data_queue, data, btn_save, pending, cfgVars,
                   nameVars, row_count>>
    /\ UNCHANGED <<xlsx, mpc, spc, cur, k, irow, lenread, histVars>>
    /\ UNCHANGED <<view, viewBy, input_errors, stop_warnings, maxpts,
                   interval_ms, startCfg, capUsed, appended>>

\* os.remove refused because the file is open for writing (a platform that
\* locks open files): the exception is swallowed
FinRemoveRefused(f) ==
    /\ f \in FinIds
    /\ fins[f].pc = "remove"
    /\ csv[fins[f].path].exists
    /\ csv_file.open /\ csv_file.path = fins[f].path /\ csv_file.linked
    /\ fins' = [fins EXCEPT ![f].pc = "done"]
    /\ UNCHANGED <<appVars, fsVars, mpc, spc, cur, k, irow, lenread, histVars>>
    /\ UNCHANGED <<view, viewBy, input_errors, stop_warnings, maxpts,
                   interval_ms, startCfg, capUsed, appended>>

\* --------------------------------------------- main thread: manual export
\* the workbook _write_excel_data builds from the two lists of the trend
\* buffer: rows numbered from 1 with the elapsed time relative to the first
\* one, statistics and chart sheet as the options are set
ManualRows(d) ==
    [i \in 1..Len(d) |->
        [idx |-> i, src |-> d[i].src, k |-> d[i].k - d[1].k, val |-> d[i].val]]
ManualReport(d) ==
    [exists |-> TRUE, rows |-> ManualRows(d), run |-> 0,
     stats |-> IF excel_stats_var THEN Stats(Values(d)) ELSE NoStats,
     chart |-> IF excel_chart_var
               THEN [present |-> TRUE,
                     rows |-> [i \in 1..Len(d) |->
                                 [t |-> d[i].k - d[1].k, val |-> d[i].val]]]
               ELSE NoChart]

\* _save_excel: the save button is enabled and the trend buffer holds data;
\* a file name is built and the workbook written under it
SaveExcel ==
    /\ mpc = "idle"
    /\ btn_save
    /\ data # <<>>
    /\ \E sfx \in SuffixChoices :
          /\ counter' = sfx.counter
          /\ stamp' = sfx.stamp
          /\ built' = Append(built, [by |-> "save", name |-> <<sfx.mode, sfx.n>>])
          /\ xlsx' = [xlsx EXCEPT ![<<sfx.mode, sfx.n>>] = ManualReport(data)]
    /\ UNCHANGED <<running, data_queue, data, btn_save, pending, cfgVars, path,
                   csv_file, row_count>>
    /\ UNCHANGED <<csv, thrVars, histVars, view, viewBy, msgVars, locVars,
                   cfgHist, appended>>

\* ------------------------------------------------------------------- Next
\* The bounds of the exploration are guards of the next-state relations: a
\* sampler thread begins a bounded number of iterations and a bounded number
\* of I/O operations fail.
MoreIter(s, n) == running => k[s] < n
MoreFaults     == faults < MaxFaults

\* --- Spec: one acquisition run after application start, with every setting
\* of max-points, autosave, suffix mode and connection, and with I/O failures
MainStep ==
    \/ (runNo = 0 /\ StartClear)
    \/ StartNoPersist
    \/ StartOpenPaths
    \/ (MoreFaults /\ StartOpenFailEarly)
    \/ OpenFile
    \/ (MoreFaults /\ OpenFileFail)
    \/ WriteHeader
    \/ StopMeasurement
    \/ OnMaxptsReached
    \/ RenderItem
    \/ RenderFinish
    \/ ClearData

SamplerStep ==
    \E s \in Samplers :
        \/ (MoreIter(s, MaxIter) /\ LoopTest(s))
        \/ MeasurePut(s)
        \/ IncRow(s)
        \/ WriteRow(s)
        \/ (MoreFaults /\ WriteRowFail(s))
        \/ ReadQsize(s)

FinalizerStep ==
    \E f \in 1..MaxFin :
        \/ FinConvert(f)
        \/ (MoreFaults /\ FinConvertFail(f))
        \/ FinRemove(f)

Next == MainStep \/ SamplerStep \/ FinalizerStep

Spec == Init /\ [][Next]_vars

\* --- SpecRestart: up to MaxRuns runs in a row with autosave on, no point
\* limit and no I/O failure; the threads of an earlier run may still be alive
InitRestart ==
    /\ Init
    /\ autosave_var
    /\ maxpts_var = 0
    /\ simulation

MainRestart ==
    \/ (runNo < MaxRuns /\ StartClear)
    \/ StartOpenPaths
    \/ OpenFile
    \/ WriteHeader
    \/ StopMeasurement
    \/ RenderItem
    \/ RenderFinish
    \/ ClearData

SamplerRestart ==
    \E s \in Samplers :
        \/ (MoreIter(s, MaxIterRestart) /\ LoopTest(s))
        \/ MeasurePut(s)
        \/ IncRow(s)
        \/ WriteRow(s)

FinalizerRestart ==
    \E f \in 1..MaxFin :
        \/ FinConvert(f)
        \/ FinRemove(f)
        \/ FinRemoveRefused(f)

NextRestart == MainRestart \/ SamplerRestart \/ FinalizerRestart

SpecRestart == InitRestart /\ [][NextRestart]_vars

\* --- SpecPanel: one run without autosave while the user operates the
\* acquisition panel: interval and max-points entries, view switches, start
\* with a rejected interval, clear during the run
InitPanel ==
    /\ InitState
    /\ maxpts_var \in MaxPtsChoices
    /\ autosave_var = FALSE
    /\ suffix_mode_var = "datetime"
    /\ simulation = TRUE
    /\ interval_var \in IntervalChoices
    /\ \E sa, ss \in BOOLEAN : AppliedView(sa, ss)
    /\ scroll_win_var = ScrollWin
    /\ excel_stats_var = TRUE
    /\ excel_chart_var = TRUE

MainPanel ==
    \/ (runNo = 0 /\ StartClear)
    \/ (input_errors < MaxMsgs /\ StartRejected)
    \/ StartNoPersist
    \/ StopMeasurement
    \/ OnMaxptsReached
    \/ RenderItem
    \/ RenderFinish
    \/ ClearData
    \/ (stop_warnings < MaxMsgs /\ ClearRejected)
    \/ (\E e \in IntervalChoices : SetInterval(e))
    \/ (\E n \in MaxPtsChoices : SetMaxPts(n))
    \/ ToggleAutoscale
    \/ ToggleScroll

SamplerPanel ==
    \E s \in Samplers :
        \/ (MoreIter(s, MaxIterPanel) /\ LoopTest(s))
        \/ MeasurePut(s)
        \/ ReadQsize(s)

NextPanel == MainPanel \/ SamplerPanel

SpecPanel == InitPanel /\ [][NextPanel]_vars

\* --- SpecStats: the finalizer applied to a buffer with any rows: the state
\* after a run with autosave that the user stopped and whose plot data was
\* cleared, the finalizer thread spawned and not yet run
BufferRows(vals) ==
    [i \in 1..Len(vals) |-> [idx |-> i, src |-> 1, k |-> i, val |-> vals[i]]]

ValueSeqs == UNION {[1..n -> StatValues \cup {NaN}] : n \in 0..MaxRows}

InitStats ==
    \E vals \in ValueSeqs, st, ch \in BOOLEAN :
        LET rows == BufferRows(vals)
            n    == Len(vals)
            p    == <<"counter", 1>>
        IN
        /\ maxpts_var = 0 /\ autosave_var = TRUE /\ suffix_mode_var = "counter"
        /\ simulation = FALSE
        /\ interval_var = <<"int", DefaultInterval>>
        /\ AppliedView(TRUE, FALSE)
        /\ scroll_win_var = ScrollWin
        /\ excel_stats_var = st
        /\ excel_chart_var = ch
        /\ running = FALSE /\ data_queue = <<>> /\ data = <<>>
        /\ btn_save = FALSE /\ pending = 0 /\ view = NoView /\ viewBy = "none"
        /\ input_errors = 0 /\ stop_warnings = 0
        /\ maxpts = [s \in Samplers |-> 0]
        /\ interval_ms = [s \in Samplers |-> IF s = 1 THEN DefaultInterval ELSE 0]
        /\ startCfg = [r \in Runs |->
                          [interval |-> IF r = 1 THEN DefaultInterval ELSE 0,
                           maxpts |-> 0]]
        /\ capUsed = [s \in Samplers |-> 0]
        /\ appended = [r \in Runs |-> IF r = 1 THEN rows ELSE <<>>]
        /\ counter = 1 /\ stamp = 0 /\ path = p
        /\ built = <<[by |-> "run", name |-> p]>>
        /\ csv_file = NoneFile /\ row_count = 0
        /\ csv = [q \in AllPaths |->
                     IF q = p
                     THEN [exists |-> TRUE, lines |-> <<HeaderRow>> \o rows,
                           gen |-> 1]
                     ELSE NoFile]
        /\ xlsx = [q \in AllPaths |-> NoReport]
        /\ mpc = "idle"
        /\ spc = [s \in Samplers |-> IF s = 1 THEN "done" ELSE "none"]
        /\ cur = [s \in Samplers |->
                     IF s = 1 /\ n > 0
                     THEN [src |-> 1, k |-> n, val |-> vals[n]]
                     ELSE NoSample]
        /\ k = [s \in Samplers |-> IF s = 1 THEN n ELSE 0]
        /\ irow = [s \in Samplers |-> IF s = 1 THEN n ELSE 0]
        /\ lenread = [s \in Samplers |-> 0]
        /\ fins = <<[pc |-> "convert", path |-> p, run |-> 1, readGen |-> 0,
                     rows |-> <<>>, failed |-> FALSE, saved |-> FALSE,
                     removedGen |-> 0, inc_stats |-> st, inc_chart |-> ch,
                     at |-> 1]>>
        /\ runNo = 1 /\ bufRun = 1
        /\ epoch = [s \in Samplers |-> IF s = 1 /\ n > 0 THEN 1 ELSE 0]
        /\ limitAt = [s \in Samplers |-> 0]
        /\ opened = [r \in Runs |-> r = 1]
        /\ openFailed = [r \in Runs |-> FALSE]
        /\ appendFailed = [r \in Runs |-> FALSE]
        /\ stopPressed = [r \in Runs |-> r = 1]
        /\ err_reports = [r \in Runs |-> 0]
        /\ faults = 0

NextStats == \E f \in 1..MaxFin : FinConvert(f) \/ FinRemove(f)

SpecStats == InitStats /\ [][NextStats]_vars

\* --- SpecTrend: up to MaxRuns runs in a row without autosave, with every
\* max-points setting and simulated readings; the thread of an earlier run may
\* still be alive. The tick of _update_plot_loop re-arms itself with after(80) and
\* a handler of the main thread runs to its end, so the render steps and the
\* second half of start() are weakly fair.
InitTrend ==
    /\ Init
    /\ ~autosave_var
    /\ suffix_mode_var = "datetime"
    /\ simulation

MainTrend ==
    \/ (runNo < MaxRuns /\ StartClear)
    \/ StartNoPersist
    \/ StopMeasurement
    \/ OnMaxptsReached
    \/ RenderItem
    \/ RenderFinish
    \/ ClearData

SamplerTrend ==
    \E s \in Samplers :
        \/ (MoreIter(s, MaxIterTrend) /\ LoopTest(s))
        \/ MeasurePut(s)
        \/ ReadQsize(s)

NextTrend == MainTrend \/ SamplerTrend

SpecTrend ==
    /\ InitTrend
    /\ [][NextTrend]_vars
    /\ WF_vars(RenderItem)
    /\ WF_vars(RenderFinish)
    /\ WF_vars(StartNoPersist)

\* --- SpecScroll: one tick of the render loop over a queue that holds the
\* first n samples of a run without autosave, taken every 5 s from elapsed
\* time 0 on, with any scroll window and any setting of the view switches
QueuedSamples(vals) ==
    [i \in 1..Len(vals) |-> [src |-> 1, k |-> 5 * (i - 1), val |-> vals[i]]]

TrendSeqs == UNION {[1..n -> TrendValues] : n \in 0..MaxQueued}

InitScroll ==
    \E vals \in TrendSeqs, win \in WinChoices, sa, ss \in BOOLEAN :
        LET n == Len(vals)
        IN
        /\ maxpts_var = 0 /\ autosave_var = FALSE /\ suffix_mode_var = "datetime"
        /\ simulation = TRUE
        /\ interval_var = <<"int", DefaultInterval>>
        /\ AppliedView(sa, ss)
        /\ scroll_win_var = win
        /\ excel_stats_var = TRUE /\ excel_chart_var = TRUE
        /\ running = TRUE /\ data_queue = QueuedSamples(vals) /\ data = <<>>
        /\ btn_save = FALSE /\ pending = 0 /\ view = NoView /\ viewBy = "none"
        /\ input_errors = 0 /\ stop_warnings = 0
        /\ maxpts = [s \in Samplers |-> 0]
        /\ interval_ms = [s \in Samplers |-> IF s = 1 THEN DefaultInterval ELSE 0]
        /\ startCfg = [r \in Runs |->
                          [interval |-> IF r = 1 THEN DefaultInterval ELSE 0,
                           maxpts |-> 0]]
        /\ capUsed = [s \in Samplers |-> 0]
        /\ appended = [r \in Runs |-> <<>>]
        /\ counter = 0 /\ stamp = 0 /\ path = NoPath /\ built = <<>>
        /\ csv_file = NoneFile /\ row_count = 0
        /\ csv = [q \in AllPaths |-> NoFile]
        /\ xlsx = [q \in AllPaths |-> NoReport]
        /\ mpc = "idle"
        /\ spc = [s \in Samplers |-> IF s = 1 THEN "loop" ELSE "none"]
        /\ cur = [s \in Samplers |->
                     IF s = 1 /\ n > 0 THEN QueuedSamples(vals)[n] ELSE NoSample]
        /\ k = [s \in Samplers |-> IF s = 1 THEN n ELSE 0]
        /\ irow = [s \in Samplers |-> 0]
        /\ lenread = [s \in Samplers |-> 0]
        /\ fins = <<>>
        /\ runNo = 1 /\ bufRun = 0
        /\ epoch = [s \in Samplers |-> IF s = 1 /\ n > 0 THEN 1 ELSE 0]
        /\ limitAt = [s \in Samplers |-> 0]
        /\ opened = [r \in Runs |-> FALSE]
        /\ openFailed = [r \in Runs |-> FALSE]
        /\ appendFailed = [r \in Runs |-> FALSE]
        /\ stopPressed = [r \in Runs |-> FALSE]
        /\ err_reports = [r \in Runs |-> 0]
        /\ faults = 0

NextScroll == RenderItem \/ RenderFinish \/ StopMeasurement

SpecScroll == InitScroll /\ [][NextScroll]_vars

\* --- SpecSession: a session of up to MaxRuns runs started with autosave
\* on, in counter suffix mode; between runs the user may switch autosave off
\* and export the trend buffer by hand; the thread of an earlier run may
\* still be alive
InitSession ==
    /\ Init
    /\ autosave_var
    /\ suffix_mode_var = "counter"
    /\ maxpts_var = 0
    /\ simulation

ManualSaves == Cardinality({i \in 1..Len(built) : built[i].by = "save"})

MainSession ==
    \/ (runNo < MaxRuns /\ StartClear)
    \/ StartNoPersist
    \/ StartOpenPaths
    \/ OpenFile
    \/ WriteHeader
    \/ StopMeasurement
    \/ RenderItem
    \/ RenderFinish
    \/ (autosave_var /\ ~running /\ runNo >= 1 /\ ToggleAutosave)
    \/ (ManualSaves < MaxSaves /\ SaveExcel)

SamplerSession ==
    \E s \in Samplers :
        \/ (MoreIter(s, MaxIterRestart) /\ LoopTest(s))
        \/ MeasurePut(s)
        \/ IncRow(s)
        \/ WriteRow(s)

FinalizerSession ==
    \E f \in 1..MaxFin :
        \/ FinConvert(f)
        \/ FinRemove(f)

NextSession == MainSession \/ SamplerSession \/ FinalizerSession

SpecSession == InitSession /\ [][NextSession]_vars

\* ----------------------------------------------------------------- claims
IsDataRow(r) == r.idx > 0
DataRows(fl) == SelectSeq(fl.lines, IsDataRow)
StartedRuns  == 1..runNo

\* a sampler thread is inside a loop iteration that it entered (its loop test
\* found self.running set) during the run now in progress
Active(s) == spc[s] \in {"measure", "inc", "write", "rdq"} /\ epoch[s] = runNo

\* C1: at most one sampler thread is alive and producing samples: never are
\* two _measure_loop threads both inside an iteration begun in the current run
C1_AtMostOneSampler ==
    Cardinality({s \in Samplers : Active(s)}) <= 1

\* C2: with autosave on and no write error, once the run is stopped and its
\* sampler thread has exited, the buffer holds one data row for every sample
\* the thread pushed (the state before the finalizer has touched the file)
C2_NoSampleLost ==
    \A r \in StartedRuns :
        ( /\ r = runNo /\ opened[r] /\ faults = 0
          /\ ~running /\ mpc = "idle" /\ spc[r] = "done"
          /\ \A f \in FinIds : fins[f].pc = "convert"
          /\ csv[path].exists )
        => Len(DataRows(csv[path])) = k[r]

\* C3: in a run with autosave on that is not stopped by the user, the
\* limit-reached signal is raised by the sampler exactly at its N-th sample,
\* N the max-points setting
C3_LimitAtN ==
    \A s \in StartedRuns :
        (limitAt[s] > 0 /\ ~stopPressed[s] /\ opened[s] /\ faults = 0)
            => limitAt[s] = maxpts_var

\* C4: a finalizer removes the buffer file only after it has saved the report
C4_DeleteOnlyAfterSave ==
    \A f \in FinIds : fins[f].removedGen # 0 => fins[f].saved

\* C5: the finalizer spawned for run r reads no row pushed by the sampler of a
\* later run and removes no buffer file opened by a later run
C5_FinalizerOwnRun ==
    \A f \in FinIds :
        /\ \A i \in 1..Len(fins[f].rows) : fins[f].rows[i].src <= fins[f].run
        /\ fins[f].removedGen <= fins[f].run

\* C6: exactly one finalizer is spawned for each run that opened a buffer: never
\* two, and one as soon as the run has been stopped
C6_OneFinalizerPerRun ==
    \A r \in Runs :
        LET n == Cardinality({f \in FinIds : fins[f].run = r})
        IN /\ n <= 1
           /\ (opened[r] /\ r = runNo /\ ~running /\ faults = 0) => n = 1

\* C7: the data rows of every buffer file carry the indices 1, 2, ..., n in
\* file order
C7_ContiguousIndex ==
    \A p \in AllPaths :
        csv[p].exists =>
            LET rows == DataRows(csv[p])
            IN \A i \in 1..Len(rows) : rows[i].idx = i

Range(sq) == {sq[i] : i \in 1..Len(sq)}
InMemory  == Range(data_queue) \cup Range(data)
HasRow(fl, smp) ==
    \E i \in 1..Len(fl.lines) :
        fl.lines[i].src = smp.src /\ fl.lines[i].k = smp.k /\ fl.lines[i].idx > 0

\* C9: with autosave on and no write error, while the buffer of the run is
\* in use every sample in the queue or in the trend buffer has its row in
\* the buffer file
C9_DurableBeforeMemory ==
    (runNo >= 1 /\ opened[runNo] /\ faults = 0 /\ fins = <<>>
        /\ csv[path].exists)
    => \A smp \in InMemory : HasRow(csv[path], smp)

\* the buffer of the run whose sampler signalled limit-reached, before any
\* finalizer was spawned, holds a NaN row
NaNRunAtLimit(s) ==
    /\ limitAt[s] > 0 /\ ~stopPressed[s] /\ opened[s] /\ faults = 0
    /\ fins = <<>> /\ csv[path].exists
    /\ \E i \in 1..Len(csv[path].lines) : csv[path].lines[i].val = NaN

\* C10, rows part: in such a run row i carries index i and the value of the
\* i-th sample, measured or NaN
C10_RowsKeepValues ==
    \A s \in StartedRuns :
        NaNRunAtLimit(s) =>
            LET rows == DataRows(csv[path])
            IN \A i \in 1..Len(rows) :
                  /\ rows[i].idx = i /\ rows[i].k = i
                  /\ \A smp \in InMemory : smp.k = i => smp.val = rows[i].val

\* C10: a failed read does not stop the sampler: the rows keep their values
\* and indices and the run with max-points N completes at N rows
C10_NaNRunCompletesAtN ==
    /\ C10_RowsKeepValues
    /\ \A s \in StartedRuns :
          NaNRunAtLimit(s) => Len(DataRows(csv[path])) = maxpts_var

\* C11: a start() with an interval entry that is no integer or is below 50 is
\* rejected and changes nothing: the step that shows the input error leaves
\* the run flag false and the threads, the buffer handle, the files, the
\* trend buffer and the queue as they are; and every accepted start() found a
\* valid interval
C11_RejectedStartChangesNothing ==
    [][ /\ (input_errors' # input_errors) =>
              /\ ~running /\ ~running'
              /\ ~ValidInterval(interval_var)
              /\ UNCHANGED <<spc, runNo, csv_file, csv, data, data_queue>>
        /\ (runNo' # runNo) => ValidInterval(interval_var) ]_vars

\* a start() was rejected after a run left samples in the trend buffer
C11_Witness ==
    /\ input_errors >= 1 /\ ~ValidInterval(interval_var)
    /\ runNo = 1 /\ ~running /\ data # <<>>
    /\ \A s \in Samplers : spc[s] \in {"none", "done"}

\* C12: clear() while the run flag is set only warns: trend buffer, queue,
\* run flag and save button are unchanged; and the trend buffer is emptied by
\* a step only while the run flag is false
C12_ClearWhileRunningNoOp ==
    [][ /\ (stop_warnings' # stop_warnings) =>
              (running /\ UNCHANGED <<data, data_queue, running, btn_save>>)
        /\ (data # <<>> /\ data' = <<>>) => ~running ]_vars

\* clear() was rejected during a run that has samples in the trend buffer
C12_Witness == stop_warnings >= 1 /\ running /\ data # <<>>

\* C13: with a positive max-points setting the trend buffer never holds more
\* samples than that
C13_TrendBufferBounded == maxpts_var > 0 => Len(data) <= maxpts_var

\* C14: while the limits were set by a tick in manual mode and no view switch
\* was toggled, the run not restarted and the data not cleared since, a tick
\* leaves the limits as they are
C14_ManualViewFixed ==
    [][ (viewBy = "manual" /\ viewBy' = "manual") => view' = view ]_vars

\* C15: the autoscale switch and the scroll switch are never both set
C15_ModesExclusive == ~(autoscale_var /\ scroll_var)

\* the step in which finalizer f saves its report
Saves(f) == f \in FinIds /\ ~fins[f].saved /\ fins'[f].saved

\* C16: the report a finalizer saves for run r has the rows that were
\* appended to the buffer of run r, in the order and with the fields they
\* were appended with, whatever the trend buffer holds
C16_ReportEqualsAppended ==
    [][ \A f \in 1..MaxFin :
           Saves(f) => xlsx'[fins[f].path].rows = appended[fins[f].run] ]_vars

\* the values of the rows a saved report was built from, for the reports of
\* finalizations that had the statistics option set and read a row
StatReports ==
    {f \in FinIds : fins[f].saved /\ fins[f].inc_stats /\ fins[f].rows # <<>>
                       /\ xlsx[fins[f].path].exists}
RowValues(f) == Values(fins[f].rows)
Finite(vals) == {vals[i] : i \in {j \in 1..Len(vals) : vals[j] # NaN}}
Least(S)     == CHOOSE x \in S : \A y \in S : x <= y
Greatest(S)  == CHOOSE x \in S : \A y \in S : x >= y

C18_ConfigFixedForRun ==
    \A s \in StartedRuns :
        /\ spc[s] # "none" => interval_ms[s] = startCfg[s].interval
        /\ spc[s] = "rdq" => maxpts[s] = startCfg[s].maxpts
        /\ limitAt[s] > 0 => capUsed[s] = startCfg[s].maxpts

\* C19: the sampler thread of run s passes its loop test, and so begins
\* a measurement, only while run s is the run in progress: not after a stop
\* of run s was followed by a new start()
C19_SamplerExitsAfterStop ==
    \A s \in Samplers : epoch[s] \in {0, s}

\* C20: while a sampler thread is inside _append_live_row (past the writer
\* test), the buffer handle has not been closed and no finalizer that reads
\* and deletes the buffer of that run has been spawned
C20_AppendAndFinalizeDisjoint ==
    \A s \in Samplers :
        spc[s] \in {"inc", "write"} =>
            /\ csv_file.open
            /\ \A f \in FinIds : fins[f].run # bufRun

\* every sample a sampler thread can push while the run flag lets it iterate
PushedSamples ==
    [src : Samplers, k : 1..MaxIterTrend, val : MeasureResults(TRUE)]

\* C21: every sample pushed onto the queue is appended to the trend buffer
\* exactly once, in push order, and eventually: a step changes the queue only
\* by a push at its tail or by moving its head to the end of the trend
\* buffer, the trend buffer changes only by that move or by being emptied,
\* no sample is in the queue or the trend buffer twice, a tick ends only on
\* an empty queue, and a queued sample is in the trend buffer later on
C21_QueueDrainedInOrder ==
    /\ [][ /\ (data_queue' # data_queue) =>
                  ( (data' = data /\ \E smp \in PushedSamples :
                                        data_queue' = Append(data_queue, smp))
                    \/ (data_queue # <<>> /\ data_queue' = Tail(data_queue)
                           /\ data' = Append(data, Head(data_queue))) )
           /\ (data' # data) =>
                  ( data' = <<>>
                    \/ (data_queue # <<>> /\ data_queue' = Tail(data_queue)
                           /\ data' = Append(data, Head(data_queue))) )
           /\ (mpc = "render" /\ mpc' = "idle") => data_queue = <<>> ]_vars
    /\ [](\A i, j \in 1..Len(data \o data_queue) :
             i # j => (data \o data_queue)[i] # (data \o data_queue)[j])
    /\ \A smp \in PushedSamples :
          (smp \in Range(data_queue)) ~> (smp \in Range(data))

\* the samples of two threads went through the queue into the trend buffer
C21_Witness ==
    /\ Len(data) >= 3 /\ data_queue = <<>> /\ mpc = "idle"
    /\ \E i, j \in 1..Len(data) : data[i].src # data[j].src

\* C22: while a finalizer thread is at work the run flag is false; and once
\* it has ended after a successful save, the report exists with all the rows
\* appended to the buffer of its run and the buffer file does not exist
C22_FinalizerCompletes ==
    \A f \in FinIds :
        /\ fins[f].pc # "done" => ~running
        /\ (fins[f].pc = "done" /\ fins[f].saved) =>
              /\ xlsx[fins[f].path].exists
              /\ Len(xlsx[fins[f].path].rows) = Len(appended[fins[f].run])
              /\ ~csv[fins[f].path].exists

\* C23: a step that toggles the autoscale or the scroll switch while the
\* trend buffer holds samples leaves the axis limits at what the branch of
\* the newly set mode computes for the trend buffer
C23_SwitchRecomputesView ==
    [][ ((scroll_var' # scroll_var \/ autoscale_var' # autoscale_var)
            /\ data # <<>>)
        => view' = TickView(data, view)' ]_vars

\* the trend buffer after a tick in scroll mode, and the samples inside the
\* window that ends at the newest one
AfterScrollTick == viewBy = "scroll" /\ mpc = "idle" /\ data # <<>>
LastTime   == data[Len(data)].k
WindowFrom ==
    IF data[1].k >= LastTime - scroll_win_var
    THEN data[1].k ELSE LastTime - scroll_win_var
InWindow   ==
    {data[i].val : i \in {j \in 1..Len(data) :
                             data[j].k >= WindowFrom /\ data[j].k <= LastTime}}

\* C24 as stated: after a tick in scroll mode the upper time bound is the
\* time of the last sample, the lower one is max(first time, last - W), and
\* the value bounds are the least and the greatest value inside the window
C24_ScrollBounds ==
    AfterScrollTick =>
        /\ view.thi = LastTime
        /\ view.tmin = WindowFrom
        /\ view.vmin = Least(InWindow) /\ view.vmax = Greatest(InWindow)

\* C24 amended: tmin = max(first time, last - W); the upper time bound is
\* the time of the last sample when that is later than tmin and tmin + 1
\* otherwise (a single sample); the value bounds are the least and the
\* greatest value inside the window; times 0,5,...,25 with W = 10 give the
\* bounds 15 and 25
C24_ScrollBoundsGuarded ==
    AfterScrollTick =>
        /\ view.tmin = WindowFrom
        /\ view.thi = (IF LastTime > WindowFrom THEN LastTime ELSE WindowFrom + 1)
        /\ view.vmin = Least(InWindow) /\ view.vmax = Greatest(InWindow)
        /\ (Timestamps(data) = <<0, 5, 10, 15, 20, 25>> /\ scroll_win_var = 10)
               => (view.tmin = 15 /\ view.thi = 25)

\* a scroll tick has drawn the samples taken at 0,5,...,25 with W = 10, a
\* value outside the window being the greatest
C24_Witness ==
    /\ AfterScrollTick
    /\ Timestamps(data) = <<0, 5, 10, 15, 20, 25>> /\ scroll_win_var = 10
    /\ view.tmin = 15 /\ view.thi = 25
    /\ data[1].val = 2 /\ view.vmax = 1

\* the finalizations that saved a report which is still there
SavedReports ==
    {f \in FinIds : fins[f].saved /\ xlsx[fins[f].path].exists}

\* C25: a report saved with the chart option set for a buffer with rows has
\* a chart sheet with one row for every row of the buffer, in order, which
\* holds the elapsed time less that of the first buffer row and the value,
\* so that its first elapsed time is 0; without the option or without rows
\* the report has no chart sheet
C25_ChartRebased ==
    \A f \in SavedReports :
        LET rows  == appended[fins[f].run]
            chart == xlsx[fins[f].path].chart
        IN IF fins[f].inc_chart /\ rows # <<>>
           THEN /\ chart.present
                /\ Len(chart.rows) = Len(rows)
                /\ \A i \in 1..Len(rows) :
                      /\ chart.rows[i].t = rows[i].k - rows[1].k
                      /\ chart.rows[i].val = rows[i].val
                /\ chart.rows[1].t = 0
           ELSE ~chart.present

\* a report with a chart sheet was saved for a buffer of several rows whose
\* first elapsed time is not 0
C25_Witness ==
    \E f \in SavedReports :
        /\ xlsx[fins[f].path].chart.present
        /\ Len(appended[fins[f].run]) >= 3
        /\ appended[fins[f].run][1].k > 0
        /\ xlsx[fins[f].path].chart.rows[3].t = 2

\* the file names built in counter mode, in the order they were built
IsCounterName(b) == b.name[1] = "counter"
CounterNames == SelectSeq(built, IsCounterName)

\* C26: in counter mode every file name built in the session, for a run or
\* for a manual export, carries a number greater than that of every name
\* built before, none greater than the counter; so no two of them are the
\* same path
C26_CounterMonotonic ==
    /\ \A i, j \in 1..Len(CounterNames) :
          i < j => CounterNames[i].name[2] < CounterNames[j].name[2]
    /\ \A i \in 1..Len(CounterNames) : CounterNames[i].name[2] <= counter

\* two runs of a session in counter mode with a manual export between them
C26_Witness ==
    /\ Len(CounterNames) = 3
    /\ CounterNames[1].by = "run" /\ CounterNames[2].by = "save"
    /\ CounterNames[3].by = "run"
    /\ xlsx[CounterNames[2].name].exists

\* C27: the trend buffer holds only samples pushed by the thread of the run
\* last started: start() empties it and no sample of an earlier thread is
\* appended to it afterwards
C27_TrendOfCurrentRun ==
    \A i \in 1..Len(data) : data[i].src = runNo

\* C28: the elapsed times of the trend buffer never decrease in buffer order,
\* and neither do those of the data rows of a buffer file
C28_ElapsedNonDecreasing ==
    /\ \A i, j \in 1..Len(data) : i < j => data[i].k <= data[j].k
    /\ \A p \in AllPaths :
          LET rows == DataRows(csv[p])
          IN \A i, j \in 1..Len(rows) : i < j => rows[i].k <= rows[j].k

\* C29: finalizers are spawned only at the stop of a run that opened a
\* buffer, and whenever no writer is open the row counter is 0
C29_NoFinalizerWithoutBuffer ==
    /\ \A f \in FinIds : opened[fins[f].at]
    /\ ~csv_file.open => row_count = 0

\* C30: the first line of every buffer file that has a line is the header
\* and every later line is a data row
C30_HeaderFirst ==
    \A p \in AllPaths :
        (csv[p].exists /\ csv[p].lines # <<>>) =>
            /\ csv[p].lines[1] = HeaderRow
            /\ \A i \in 2..Len(csv[p].lines) : IsDataRow(csv[p].lines[i])

====
